---- MODULE Spec2Model ----
(***************************************************************************)
(* digenv (lab 1/digenv.c): printenv [| grep ARGS] | sort | pager, built   *)
(* with pipe(2), fork(2), dup2(2), close(2), exec(3) and wait(2).          *)
(*                                                                         *)
(* The parent and each forked stage are processes with their own program   *)
(* counter and their own descriptor table.  Every system call is one step. *)
(* exec either replaces the image or returns.  The run is followed until   *)
(* the parent exits.                                                       *)
(*                                                                         *)
(* Spec     : any pipe, fork, dup2, close or wait may fail; a stage        *)
(*            program that was exec'd exits with code 0.                   *)
(* SpecReap : no system call fails; a stage program that was exec'd ends   *)
(*            with any exit code in 0..MaxCode or by a signal.             *)
(***************************************************************************)
EXTENDS Integers, Sequences, FiniteSets, TLC

\* ---------------------------------------------------------------- bounds
MaxCode == 2        \* a stage program exits with a code in 0..MaxCode

\* ------------------------------------------------------ program constants
PIPE_IN == 0
PIPE_OUT == 1
STDIN_FILENO == 0
STDOUT_FILENO == 1
NumPipes == 3

\* ------------------------------------------------------------ environment
Stages == {"printenv", "grep", "sort", "pager"}
Procs == {"parent"} \cup Stages

\* argv of the invocation: argv[1] is the program name, the rest its arguments
ArgvChoices == { <<"digenv">>, <<"digenv", "-i", "path">> }

\* what getenv("PAGER") can return: <<>> is NULL, otherwise <<string>>
PagerChoices == { <<>>, <<"">>, <<"most">> }

\* signals that can end a stage program
SigSet == {13}

\* ------------------------------------------------------ descriptor tables
FdRange == 0 .. (2 + 2 * NumPipes)

Closed == [pipe |-> -1, end |-> -1]
Inherited(n) == [pipe |-> -2, end |-> n]
PipeEnd(p, e) == [pipe |-> p, end |-> e]

IsPipeEnd(o) == o.pipe >= 0

\* the table a process is started with: 0, 1, 2 open, nothing else
InitialFds == [f \in FdRange |-> IF f <= 2 THEN Inherited(f) ELSE Closed]

NoFds == [f \in FdRange |-> Closed]

IsOpen(tbl, fd) == fd \in FdRange /\ tbl[fd] # Closed

\* pipe(2) hands out the lowest free descriptor
LowestFree(tbl) ==
    CHOOSE f \in FdRange : tbl[f] = Closed /\ \A g \in FdRange : g < f => tbl[g] # Closed

HasFree(tbl, n) == Cardinality({f \in FdRange : tbl[f] = Closed}) >= n

\* dup2(oldfd, newfd): newfd now names oldfd's open file
Dup2(tbl, oldfd, newfd) == [tbl EXCEPT ![newfd] = tbl[oldfd]]

Close(tbl, fd) == [tbl EXCEPT ![fd] = Closed]

\* ---------------------------------------------------------- wait statuses
\* the int wait(2) stores: exit code in bits 8..15, signal in bits 0..6
W_EXITCODE(code) == (code % 256) * 256
W_TERMSIG(sig) == sig

WIFEXITED(st) == st % 128 = 0
WEXITSTATUS(st) == (st \div 256) % 256
WIFSIGNALED(st) == (st % 128) \notin {0, 127}
WTERMSIG(st) == st % 128

\* what the shell sees of exit(n)
ExitStatusOf(n) == n % 256

\* mutant: the program name counted as an argument
GrepFlagCountsName(argc) == IF argc > 0 THEN 1 ELSE 0

\* int grep = argc > 1 ? 1 : 0
GrepFlag(argc) == IF argc > 1 THEN 1 ELSE 0

VARIABLES
    argv,         \* main's argv
    ppc,          \* the parent's position in main
    grep,         \* main's grep
    i,            \* main's i
    cur,          \* the parent's cur
    pipes,        \* main's pipes[3], descriptor numbers (-1: not set)
    exit_value,   \* main's exit_value
    exitStatus,   \* the parent's exit status, -1 while it runs
    failedCall,   \* the parent system call that failed, "" if none
    fds,          \* descriptor table of every process
    cpc,          \* each stage process: "none", "setup", "running", "zombie", "reaped"
    ip,           \* each stage process: index of its next step
    ccur,         \* each stage process: its copy of cur
    pager,        \* the pager process's pager (<<>>: NULL)
    attempts,     \* each live stage process: the files it passed to exec, in order
    image,        \* each live stage process: the program it became, "" if none
    execArgv,     \* each live stage process: the argv its program was started with
    wstatus,      \* each ended, unreaped stage process: its wait status
    forked,       \* the stages forked so far, in order
    reaped,       \* <<stage, wait status>> of every wait that returned, in order
    execFailed,   \* stages that exited after their last exec returned
    sysFailed,    \* stages that exited because a dup2 or close failed
    buf,          \* each pipe: the units of data in it
    count,        \* each running program: units written (printenv) or held (grep, sort)
    emitting      \* running programs that have read end-of-stream and write what they hold

vars == << argv, ppc, grep, i, cur, pipes, exit_value, exitStatus, failedCall, fds,
           cpc, ip, ccur, pager, attempts, image, execArgv, wstatus, forked,
           reaped, execFailed, sysFailed, buf, count, emitting >>

parentVars == << ppc, grep, i, cur, pipes, exit_value, exitStatus, failedCall >>
flowVars == << buf, count, emitting >>
stageVars == << cpc, ip, ccur, pager, attempts, image, execArgv, wstatus,
                execFailed, sysFailed, flowVars >>

\* --------------------------------------------------------------- Init
Init ==
    /\ argv \in ArgvChoices
    /\ ppc = "pipe97"
    /\ grep = GrepFlag(Len(argv))
    /\ i = 0
    /\ cur = 0
    /\ pipes = [p \in 0 .. (NumPipes - 1) |-> << -1, -1 >>]
    /\ exit_value = 0
    /\ exitStatus = -1
    /\ failedCall = ""
    /\ fds = [p \in Procs |-> IF p = "parent" THEN InitialFds ELSE NoFds]
    /\ cpc = [c \in Stages |-> "none"]
    /\ ip = [c \in Stages |-> 0]
    /\ ccur = [c \in Stages |-> 0]
    /\ pager = << >>
    /\ attempts = [c \in Stages |-> << >>]
    /\ image = [c \in Stages |-> ""]
    /\ execArgv = [c \in Stages |-> << >>]
    /\ wstatus = [c \in Stages |-> -1]
    /\ forked = << >>
    /\ reaped = << >>
    /\ execFailed = {}
    /\ sysFailed = {}
    /\ buf = [p \in 0 .. (NumPipes - 1) |-> 0]
    /\ count = [c \in Stages |-> 0]
    /\ emitting = {}

\* ------------------------------------------------------------- helpers
\* pipes[idx][end] as the process reads it
PipeFd(idx, end) == IF idx \in DOMAIN pipes THEN pipes[idx][end + 1] ELSE -1

\* a process ends: the kernel closes all its descriptors
ExitProcess(p) == [fds EXCEPT ![p] = NoFds]

\* mutant: check_sys_return reports the failure and returns
ParentFailReturns(call) ==
    /\ ppc' = ppc
    /\ exitStatus' = exitStatus
    /\ failedCall' = call
    /\ fds' = fds

\* check_sys_return in the parent: perror, exit(1)
ParentFail(call) ==
    /\ ppc' = "done"
    /\ exitStatus' = ExitStatusOf(1)
    /\ failedCall' = call
    /\ fds' = ExitProcess("parent")

\* mutant: the reap loop stops one child short
ReapLoopTestShort(n, c) == IF n + 1 < c THEN "wait271" ELSE "exit294"

\* mutant: the reap loop runs once more than there are children
ReapLoopTestLong(n, c) == IF n <= c THEN "wait271" ELSE "exit294"

\* the loop test i < cur of the reap loop
ReapLoopTest(n, c) == IF n < c THEN "wait271" ELSE "exit294"

\* ------------------------------------------------------- parent: pipes
\* for (i = 0; i < 3; ++i) { pipe(pipes[i]); check_sys_return(...); }
PipeOk ==
    /\ ppc = "pipe97"
    /\ HasFree(fds["parent"], 2)
    /\ LET tbl == fds["parent"]
           r == LowestFree(tbl)
           tbl1 == [tbl EXCEPT ![r] = PipeEnd(i, PIPE_IN)]
           w == LowestFree(tbl1)
           tbl2 == [tbl1 EXCEPT ![w] = PipeEnd(i, PIPE_OUT)]
       IN /\ pipes' = [pipes EXCEPT ![i] = << r, w >>]
          /\ fds' = [fds EXCEPT !["parent"] = tbl2]
    /\ i' = i + 1
    /\ ppc' = IF i + 1 < NumPipes THEN "pipe97" ELSE "fork101"
    /\ UNCHANGED << argv, grep, cur, exit_value, exitStatus, failedCall,
                    stageVars, forked, reaped >>

PipeFail ==
    /\ ppc = "pipe97"
    /\ ParentFail("pipe")
    /\ UNCHANGED << argv, grep, i, cur, pipes, exit_value, stageVars, forked, reaped >>

\* ------------------------------------------------------- parent: forks
ForkSites == {"fork101", "fork134", "fork176", "fork219"}

\* the stage each fork() of main creates
ForkStage(pc) ==
    CASE pc = "fork101" -> "printenv"
      [] pc = "fork134" -> "grep"
      [] pc = "fork176" -> "sort"
      [] pc = "fork219" -> "pager"

\* where the parent goes after a fork, ++cur done
AfterFork(pc, g) ==
    CASE pc = "fork101" -> (IF g # 0 THEN "fork134" ELSE "fork176")
      [] pc = "fork134" -> "close169"
      [] pc = "fork176" -> "close212"
      [] pc = "fork219" -> "close260"

\* pid = fork(); the child starts with a copy of the parent's memory and table
ForkOk ==
    /\ ppc \in ForkSites
    /\ LET c == ForkStage(ppc)
       IN /\ fds' = [fds EXCEPT ![c] = fds["parent"]]
          /\ cpc' = [cpc EXCEPT ![c] = "setup"]
          /\ ip' = [ip EXCEPT ![c] = 1]
          /\ ccur' = [ccur EXCEPT ![c] = cur]
          /\ forked' = Append(forked, c)
    /\ cur' = cur + 1
    /\ ppc' = AfterFork(ppc, grep)
    /\ UNCHANGED << argv, grep, i, pipes, exit_value, exitStatus, failedCall,
                    pager, attempts, image, execArgv, wstatus, execFailed, sysFailed,
                    reaped,
                    flowVars >>

ForkFail ==
    /\ ppc \in ForkSites
    /\ ParentFail("fork")
    /\ UNCHANGED << argv, grep, i, cur, pipes, exit_value, stageVars, forked, reaped >>

\* ------------------------------------------------------ parent: closes
CloseSites == {"close169", "close171", "close212", "close214", "close260", "close262"}

\* close(pipes[cur-2][PIPE_IN]) then close(pipes[cur-2][PIPE_OUT])
CloseEnd(pc) == IF pc \in {"close169", "close212", "close260"} THEN PIPE_IN ELSE PIPE_OUT

\* mutant: the parent closes the pipe of the stage it has just forked
ParentCloseIdxNewest(c) == c - 1

ParentCloseIdx(c) == c - 2

AfterClose(pc) ==
    CASE pc = "close169" -> "close171"
      [] pc = "close171" -> "fork176"
      [] pc = "close212" -> "close214"
      [] pc = "close214" -> "fork219"
      [] pc = "close260" -> "close262"
      [] pc = "close262" -> "reap"

ParentCloseOk ==
    /\ ppc \in CloseSites
    /\ LET fd == PipeFd(ParentCloseIdx(cur), CloseEnd(ppc))
       IN /\ IsOpen(fds["parent"], fd)
          /\ fds' = [fds EXCEPT !["parent"] = Close(fds["parent"], fd)]
    /\ IF AfterClose(ppc) = "reap"
          THEN i' = 0 /\ ppc' = ReapLoopTest(0, cur)
          ELSE i' = i /\ ppc' = AfterClose(ppc)
    /\ UNCHANGED << argv, grep, cur, pipes, exit_value, exitStatus, failedCall,
                    stageVars, forked, reaped >>

ParentCloseFail ==
    /\ ppc \in CloseSites
    /\ ParentFail("close")
    /\ UNCHANGED << argv, grep, i, cur, pipes, exit_value, stageVars, forked, reaped >>

\* ------------------------------------------------------- parent: reaping
Unwaited == {c \in Stages : cpc[c] \in {"setup", "running", "zombie"}}

\* mutant: records 1 instead of the child's exit code
ReapUpdateOne(ev, st) ==
    IF WIFEXITED(st)
       THEN IF ev = 0 /\ WEXITSTATUS(st) # 0 THEN 1 ELSE ev
       ELSE ev

\* mutant: child_status taken from WIFEXITED instead of WEXITSTATUS
ReapUpdateFlag(ev, st) ==
    IF WIFEXITED(st)
       THEN IF ev = 0 THEN 1 ELSE ev
       ELSE ev

\* mutant: the slip of the signal branch made in the exit branch too
ReapUpdateCompare(ev, st) == ev

\* mutant: the test 0 == exit_value dropped, the last failure is kept
ReapUpdateLast(ev, st) ==
    IF WIFEXITED(st)
       THEN IF WEXITSTATUS(st) # 0 THEN WEXITSTATUS(st) ELSE ev
       ELSE ev

\* the body of the reap loop after wait() returned status st
ReapUpdate(ev, st) ==
    IF WIFEXITED(st)
       THEN IF ev = 0 /\ WEXITSTATUS(st) # 0 THEN WEXITSTATUS(st) ELSE ev
       ELSE IF ev = 0 /\ WIFSIGNALED(st)
               THEN ev    \* exit_value == child_status; compares, assigns nothing
               ELSE ev

\* wait() returns an ended child; the kernel forgets it
WaitOk ==
    /\ ppc = "wait271"
    /\ \E c \in Stages :
          /\ cpc[c] = "zombie"
          /\ cpc' = [cpc EXCEPT ![c] = "reaped"]
          /\ wstatus' = [wstatus EXCEPT ![c] = -1]
          /\ reaped' = Append(reaped, << c, wstatus[c] >>)
          /\ exit_value' = ReapUpdate(exit_value, wstatus[c])
    /\ i' = i + 1
    /\ ppc' = ReapLoopTest(i + 1, cur)
    /\ UNCHANGED << argv, grep, cur, pipes, exitStatus, failedCall, fds, ip, ccur,
                    pager, attempts, image, execArgv, execFailed, sysFailed, forked,
                    flowVars >>

\* wait() returns -1: no child left to wait for, or interrupted
WaitFail ==
    /\ ppc = "wait271"
    /\ ParentFail("wait")
    /\ UNCHANGED << argv, grep, i, cur, pipes, exit_value, stageVars, forked, reaped >>

\* exit(exit_value)
ParentExit ==
    /\ ppc = "exit294"
    /\ ppc' = "done"
    /\ exitStatus' = ExitStatusOf(exit_value)
    /\ fds' = ExitProcess("parent")
    /\ UNCHANGED << argv, grep, i, cur, pipes, exit_value, failedCall, stageVars,
                    forked, reaped >>

\* ------------------------------------------------------- stage processes
\* one step of a stage's code between fork() and exit(1):
\*   dup2(pipes[cur+off][end], to) / close(pipes[cur+off][end]) /
\*   pager = getenv("PAGER") / exec*(file, args)
Dup2Op(off, end, to) == [op |-> "dup2", off |-> off, end |-> end, to |-> to, file |-> "", args |-> << >>]
CloseOp(off, end) == [op |-> "close", off |-> off, end |-> end, to |-> -1, file |-> "", args |-> << >>]
GetenvOp == [op |-> "getenv", off |-> 0, end |-> -1, to |-> -1, file |-> "", args |-> << >>]
ExecOp(file, args) == [op |-> "exec", off |-> 0, end |-> -1, to |-> -1, file |-> file, args |-> args]

PrintenvOps ==
    << Dup2Op(0, PIPE_OUT, STDOUT_FILENO),
       CloseOp(0, PIPE_IN),
       CloseOp(0, PIPE_OUT),
       ExecOp("printenv", << "printenv" >>) >>

\* mutant: execvp("grep", argv + 1)
GrepArgsShifted(av) == Tail(av)

\* execvp("grep", argv)
GrepArgs(av) == av

GrepOps(av) ==
    << Dup2Op(-1, PIPE_IN, STDIN_FILENO),
       CloseOp(-1, PIPE_OUT),
       Dup2Op(0, PIPE_OUT, STDOUT_FILENO),
       CloseOp(0, PIPE_IN),
       ExecOp("grep", GrepArgs(av)) >>

\* mutant: sort reads the pipe it writes
SortOpsOwnPipe ==
    << Dup2Op(0, PIPE_IN, STDIN_FILENO),
       CloseOp(-1, PIPE_OUT),
       Dup2Op(0, PIPE_OUT, STDOUT_FILENO),
       CloseOp(0, PIPE_IN),
       ExecOp("sort", << "sort" >>) >>

SortOps ==
    << Dup2Op(-1, PIPE_IN, STDIN_FILENO),
       CloseOp(-1, PIPE_OUT),
       Dup2Op(0, PIPE_OUT, STDOUT_FILENO),
       CloseOp(0, PIPE_IN),
       ExecOp("sort", << "sort" >>) >>

\* mutant: less is tried before $PAGER
PagerCandidatesLessFirst(pg) ==
    << ExecOp("less", << "less" >>) >>
        \o (IF pg # << >> THEN << ExecOp(pg[1], << pg[1] >>) >> ELSE << >>)
        \o << ExecOp("more", << "more" >>) >>

\* mutant: more is tried before less
PagerCandidatesMoreFirst(pg) ==
    (IF pg # << >> THEN << ExecOp(pg[1], << pg[1] >>) >> ELSE << >>)
        \o << ExecOp("more", << "more" >>), ExecOp("less", << "less" >>) >>

\* if (NULL != pager) execlp(pager, pager, 0); execlp("less"..); execlp("more"..)
PagerCandidates(pg) ==
    (IF pg # << >> THEN << ExecOp(pg[1], << pg[1] >>) >> ELSE << >>)
        \o << ExecOp("less", << "less" >>), ExecOp("more", << "more" >>) >>

PagerOps(pg) ==
    << Dup2Op(-1, PIPE_IN, STDIN_FILENO),
       CloseOp(-1, PIPE_OUT),
       GetenvOp >> \o PagerCandidates(pg)

StageOps(c) ==
    CASE c = "printenv" -> PrintenvOps
      [] c = "grep" -> GrepOps(argv)
      [] c = "sort" -> SortOps
      [] c = "pager" -> PagerOps(pager)

AtOp(c, kind) ==
    /\ ppc # "done"
    /\ cpc[c] = "setup"
    /\ ip[c] <= Len(StageOps(c))
    /\ StageOps(c)[ip[c]].op = kind

OpFd(c) == LET o == StageOps(c)[ip[c]] IN PipeFd(ccur[c] + o.off, o.end)

\* the process ends with wait status st; nothing of it is left but the status
Terminate(c, st) ==
    /\ cpc' = [cpc EXCEPT ![c] = "zombie"]
    /\ wstatus' = [wstatus EXCEPT ![c] = st]
    /\ fds' = ExitProcess(c)
    /\ ip' = [ip EXCEPT ![c] = 0]
    /\ ccur' = [ccur EXCEPT ![c] = 0]
    /\ attempts' = [attempts EXCEPT ![c] = << >>]
    /\ image' = [image EXCEPT ![c] = ""]
    /\ execArgv' = [execArgv EXCEPT ![c] = << >>]
    /\ pager' = IF c = "pager" THEN << >> ELSE pager
    /\ count' = [count EXCEPT ![c] = 0]
    /\ emitting' = emitting \ {c}

ChildDup2Ok(c) ==
    /\ AtOp(c, "dup2")
    /\ IsOpen(fds[c], OpFd(c))
    /\ fds' = [fds EXCEPT ![c] = Dup2(fds[c], OpFd(c), StageOps(c)[ip[c]].to)]
    /\ ip' = [ip EXCEPT ![c] = ip[c] + 1]
    /\ UNCHANGED << argv, parentVars, cpc, ccur, pager, attempts, image, execArgv,
                    wstatus, execFailed, sysFailed, forked, reaped,
                    flowVars >>

ChildCloseOk(c) ==
    /\ AtOp(c, "close")
    /\ IsOpen(fds[c], OpFd(c))
    /\ fds' = [fds EXCEPT ![c] = Close(fds[c], OpFd(c))]
    /\ ip' = [ip EXCEPT ![c] = ip[c] + 1]
    /\ UNCHANGED << argv, parentVars, cpc, ccur, pager, attempts, image, execArgv,
                    wstatus, execFailed, sysFailed, forked, reaped,
                    flowVars >>

\* check_sys_return in a stage process: perror, exit(1)
ChildSysFail(c) ==
    /\ (AtOp(c, "dup2") \/ AtOp(c, "close"))
    /\ sysFailed' = sysFailed \cup {c}
    /\ Terminate(c, W_EXITCODE(1))
    /\ UNCHANGED << argv, parentVars, execFailed, forked, reaped,
                    buf >>

\* pager = getenv("PAGER")
ChildGetenv(c, val) ==
    /\ AtOp(c, "getenv")
    /\ pager' = val
    /\ ip' = [ip EXCEPT ![c] = ip[c] + 1]
    /\ UNCHANGED << argv, parentVars, fds, cpc, ccur, attempts, image, execArgv,
                    wstatus, execFailed, sysFailed, forked, reaped,
                    flowVars >>

\* exec replaces the image and does not return; an empty file name never does
ChildExecOk(c) ==
    /\ AtOp(c, "exec")
    /\ LET o == StageOps(c)[ip[c]]
       IN /\ o.file # ""
          /\ attempts' = [attempts EXCEPT ![c] = Append(attempts[c], o.file)]
          /\ image' = [image EXCEPT ![c] = o.file]
          /\ execArgv' = [execArgv EXCEPT ![c] = o.args]
    /\ cpc' = [cpc EXCEPT ![c] = "running"]
    /\ UNCHANGED << argv, parentVars, fds, ip, ccur, pager, wstatus, execFailed,
                    sysFailed, forked, reaped,
                    flowVars >>

\* exec returns: the code goes on with the next statement
ChildExecFail(c) ==
    /\ AtOp(c, "exec")
    /\ attempts' = [attempts EXCEPT ![c] = Append(attempts[c], StageOps(c)[ip[c]].file)]
    /\ ip' = [ip EXCEPT ![c] = ip[c] + 1]
    /\ UNCHANGED << argv, parentVars, fds, cpc, ccur, pager, image, execArgv,
                    wstatus, execFailed, sysFailed, forked, reaped,
                    flowVars >>

\* mutant: no exit(1) after the failed exec; the child goes on in main and forks
ChildExit1FallsThrough(c) ==
    /\ ppc # "done"
    /\ cpc[c] = "setup"
    /\ ip[c] > Len(StageOps(c))
    /\ forked' = Append(forked, c)
    /\ UNCHANGED << argv, parentVars, stageVars, fds, reaped >>

\* perror("Problem with call to ..."); exit(1)
ChildExit1(c) ==
    /\ ppc # "done"
    /\ cpc[c] = "setup"
    /\ ip[c] > Len(StageOps(c))
    /\ execFailed' = execFailed \cup {c}
    /\ Terminate(c, W_EXITCODE(1))
    /\ UNCHANGED << argv, parentVars, sysFailed, forked, reaped,
                    buf >>

\* the stage's program ends by itself
ProgramExit(c, code) ==
    /\ ppc # "done"
    /\ cpc[c] = "running"
    /\ Terminate(c, W_EXITCODE(code))
    /\ UNCHANGED << argv, parentVars, execFailed, sysFailed, forked, reaped,
                    buf >>

\* the stage's program is ended by a signal
ProgramSignal(c, sig) ==
    /\ ppc # "done"
    /\ cpc[c] = "running"
    /\ Terminate(c, W_TERMSIG(sig))
    /\ UNCHANGED << argv, parentVars, execFailed, sysFailed, forked, reaped,
                    buf >>

\* ------------------------------------------------------------ the program
ParentStep ==
    \/ PipeOk
    \/ ForkOk
    \/ ParentCloseOk
    \/ WaitOk
    \/ ParentExit

ParentSysFail ==
    \/ PipeFail
    \/ ForkFail
    \/ ParentCloseFail
    \/ WaitFail

StageStep ==
    \E c \in Stages :
        \/ ChildDup2Ok(c)
        \/ ChildCloseOk(c)
        \/ \E val \in PagerChoices : ChildGetenv(c, val)
        \/ ChildExecOk(c)
        \/ ChildExecFail(c)
        \/ ChildExit1(c)

Next ==
    \/ ParentStep
    \/ ParentSysFail
    \/ StageStep
    \/ \E c \in Stages : ChildSysFail(c)
    \/ \E c \in Stages : ProgramExit(c, 0)

Spec == Init /\ [][Next]_vars

NextReap ==
    \/ ParentStep
    \/ StageStep
    \/ \E c \in Stages, code \in 0 .. MaxCode : ProgramExit(c, code)
    \/ \E c \in Stages, sig \in SigSet : ProgramSignal(c, sig)

SpecReap == Init /\ [][NextReap]_vars

\* ----------------------------------------------------------------------
\* Data through the pipes: what the exec'd programs do with their standard
\* input and output.  printenv writes SourceUnits units and exits; grep passes
\* each unit on; sort reads to end-of-stream and then writes what it read; the
\* pager reads to end-of-stream.  A pipe holds at most PipeCap units.
\* ----------------------------------------------------------------------
PipeCap == 1
SourceUnits == 2 * PipeCap + 2
SIGPIPE == 13

\* the processes that hold a read end, or a write end, of pipe p
Readers(p) == {q \in Procs : \E f \in FdRange : fds[q][f] = PipeEnd(p, PIPE_IN)}
Writers(p) == {q \in Procs : \E f \in FdRange : fds[q][f] = PipeEnd(p, PIPE_OUT)}

ReadsPipe(c) == fds[c][STDIN_FILENO].end = PIPE_IN /\ IsPipeEnd(fds[c][STDIN_FILENO])
WritesPipe(c) == fds[c][STDOUT_FILENO].end = PIPE_OUT /\ IsPipeEnd(fds[c][STDOUT_FILENO])
InPipe(c) == fds[c][STDIN_FILENO].pipe
OutPipe(c) == fds[c][STDOUT_FILENO].pipe

Flowing(c) == ppc # "done" /\ cpc[c] = "running"

\* the program of stage c has a unit to write now
HasOutput(c) ==
    IF c = "printenv" THEN count[c] < SourceUnits
    ELSE IF c = "sort" THEN c \in emitting /\ count[c] > 0
    ELSE c = "grep" /\ count[c] > 0

\* the program of stage c can take one more unit from its standard input
WantsInput(c) ==
    IF c = "grep" THEN count[c] = 0 /\ c \notin emitting
    ELSE c # "printenv" /\ c \notin emitting

\* the program of stage c has nothing left to do
Finished(c) ==
    IF c = "printenv" THEN count[c] = SourceUnits
    ELSE c \in emitting /\ count[c] = 0

\* write(1, ...) of one unit into a pipe that has room and a reader
FlowWrite(c) ==
    /\ Flowing(c)
    /\ HasOutput(c)
    /\ WritesPipe(c)
    /\ Readers(OutPipe(c)) # {}
    /\ buf[OutPipe(c)] < PipeCap
    /\ buf' = [buf EXCEPT ![OutPipe(c)] = @ + 1]
    /\ count' = [count EXCEPT ![c] = IF c = "printenv" THEN @ + 1 ELSE @ - 1]
    /\ UNCHANGED << argv, parentVars, cpc, ip, ccur, pager, attempts, image,
                    execArgv, wstatus, execFailed, sysFailed, emitting, fds,
                    forked, reaped >>

\* write(1, ...) into a pipe no process holds a read end of: SIGPIPE
FlowSigpipe(c) ==
    /\ Flowing(c)
    /\ HasOutput(c)
    /\ WritesPipe(c)
    /\ Readers(OutPipe(c)) = {}
    /\ Terminate(c, W_TERMSIG(SIGPIPE))
    /\ UNCHANGED << argv, parentVars, execFailed, sysFailed, forked, reaped,
                    buf >>

\* read(0, ...) of one unit
FlowRead(c) ==
    /\ Flowing(c)
    /\ WantsInput(c)
    /\ ReadsPipe(c)
    /\ buf[InPipe(c)] > 0
    /\ buf' = [buf EXCEPT ![InPipe(c)] = @ - 1]
    /\ count' = [count EXCEPT ![c] = IF c = "pager" THEN @ ELSE @ + 1]
    /\ UNCHANGED << argv, parentVars, cpc, ip, ccur, pager, attempts, image,
                    execArgv, wstatus, execFailed, sysFailed, emitting, fds,
                    forked, reaped >>

\* read(0, ...) returns 0: the pipe is empty and no process holds a write end
FlowEof(c) ==
    /\ Flowing(c)
    /\ WantsInput(c)
    /\ ReadsPipe(c)
    /\ buf[InPipe(c)] = 0
    /\ Writers(InPipe(c)) = {}
    /\ emitting' = emitting \cup {c}
    /\ UNCHANGED << argv, parentVars, cpc, ip, ccur, pager, attempts, image,
                    execArgv, wstatus, execFailed, sysFailed, buf, count, fds,
                    forked, reaped >>

\* the program has written all it had and exits 0
FlowExit(c) ==
    /\ Flowing(c)
    /\ Finished(c)
    /\ Terminate(c, W_EXITCODE(0))
    /\ UNCHANGED << argv, parentVars, execFailed, sysFailed, forked, reaped,
                    buf >>

NextFlow ==
    \/ ParentStep
    \/ StageStep
    \/ \E c \in Stages : FlowWrite(c)
    \/ \E c \in Stages : FlowSigpipe(c)
    \/ \E c \in Stages : FlowRead(c)
    \/ \E c \in Stages : FlowEof(c)
    \/ \E c \in Stages : FlowExit(c)

SpecFlow == Init /\ [][NextFlow]_vars

\* ======================================================================
\* Properties
\* ======================================================================
\* the pipeline the header documents for an invocation
ExpectedStages(av) ==
    IF Len(av) > 1 THEN << "printenv", "grep", "sort", "pager" >>
                   ELSE << "printenv", "sort", "pager" >>

IsPrefix(s, t) == Len(s) <= Len(t) /\ s = SubSeq(t, 1, Len(s))

\* the parent has left the building of the pipeline behind without a failed call
PipelineBuilt == failedCall = "" /\ ppc \in {"wait271", "exit294", "done"}

\* the parent has run to exit(exit_value)
ExitedNormally == ppc = "done" /\ failedCall = ""

ReapedStages == {reaped[k][1] : k \in DOMAIN reaped}
ForkedStages == {forked[k] : k \in DOMAIN forked}

ExitedWith(st, code) == WIFEXITED(st) /\ WEXITSTATUS(st) = code
ExitedNonZero(st) == WIFEXITED(st) /\ WEXITSTATUS(st) # 0
Signaled(st) == ~WIFEXITED(st) /\ WIFSIGNALED(st)

\* C1: the stages forked are, in order, printenv, sort, pager without arguments
\* and printenv, grep, sort, pager with arguments: never more, never in another
\* order, all of them once the pipeline is built; no grep process exists
\* without arguments; grep is started with the invocation's arguments, in order.
C1_Topology ==
    /\ IsPrefix(forked, ExpectedStages(argv))
    /\ PipelineBuilt => forked = ExpectedStages(argv)
    /\ Len(argv) = 1 => cpc["grep"] = "none"
    /\ cpc["grep"] = "running" =>
          /\ image["grep"] = "grep"
          /\ Tail(execArgv["grep"]) = Tail(argv)

C1_Witness ==
    /\ Len(argv) = 3
    /\ cpc["grep"] = "running"
    /\ Len(forked) = 4
    /\ PipelineBuilt

\* position of a stage in the pipeline of this invocation, 0 if it is not in it
Position(c) ==
    LET e == ExpectedStages(argv)
    IN IF \E k \in DOMAIN e : e[k] = c THEN CHOOSE k \in DOMAIN e : e[k] = c ELSE 0

LastPosition == Len(ExpectedStages(argv))

StdioUses(c, p) ==
    \/ (fds[c][STDIN_FILENO].pipe = p)
    \/ (fds[c][STDOUT_FILENO].pipe = p)

\* C2: when a stage has exec'd, its standard input is the read end of the pipe
\* its left neighbour writes and its standard output the write end of the pipe
\* its right neighbour reads: the k-th stage reads the (k-1)-th pipe and writes
\* the k-th; the first stage keeps the inherited standard input, the last the
\* inherited standard output; two adjacent exec'd stages share one pipe, which
\* is the standard input or output of no other exec'd stage.
C2_Chain ==
    /\ \A c \in Stages : cpc[c] = "running" =>
          /\ Position(c) >= 1
          /\ fds[c][STDIN_FILENO] =
                IF Position(c) = 1 THEN Inherited(STDIN_FILENO)
                                   ELSE PipeEnd(Position(c) - 2, PIPE_IN)
          /\ fds[c][STDOUT_FILENO] =
                IF Position(c) = LastPosition THEN Inherited(STDOUT_FILENO)
                                              ELSE PipeEnd(Position(c) - 1, PIPE_OUT)
    /\ \A c, d \in Stages :
          (cpc[c] = "running" /\ cpc[d] = "running" /\ Position(d) = Position(c) + 1) =>
              /\ IsPipeEnd(fds[c][STDOUT_FILENO])
              /\ fds[c][STDOUT_FILENO].end = PIPE_OUT
              /\ fds[d][STDIN_FILENO] = PipeEnd(fds[c][STDOUT_FILENO].pipe, PIPE_IN)
              /\ \A o \in Stages \ {c, d} :
                    cpc[o] = "running" => ~StdioUses(o, fds[c][STDOUT_FILENO].pipe)

C2_Witness ==
    /\ Len(argv) = 1
    /\ \A c \in {"printenv", "sort", "pager"} : cpc[c] = "running"
    /\ fds["printenv"][STDOUT_FILENO].pipe = fds["sort"][STDIN_FILENO].pipe

\* C3: when the parent exits after reaping every stage, exactly one of them
\* having exited with a non-zero code and all others with 0, its exit status is
\* that code.
C3_SingleFailure ==
    ExitedNormally =>
        \A k \in DOMAIN reaped :
            ( /\ ReapedStages = ForkedStages
              /\ ExitedNonZero(reaped[k][2])
              /\ \A j \in DOMAIN reaped \ {k} : ExitedWith(reaped[j][2], 0) )
            => exitStatus = WEXITSTATUS(reaped[k][2])

C3_Witness ==
    /\ ExitedNormally
    /\ Len(reaped) = 4
    /\ reaped[3] = << "sort", W_EXITCODE(2) >>
    /\ \A j \in {1, 2, 4} : ExitedWith(reaped[j][2], 0)
    /\ reaped[1][1] = "pager"
    /\ exitStatus = 2

\* C4: when the parent exits after reaping every stage, all of them having
\* exited with code 0, its exit status is 0.
C4_AllZero ==
    ( /\ ExitedNormally
      /\ ReapedStages = ForkedStages
      /\ \A k \in DOMAIN reaped : ExitedWith(reaped[k][2], 0) )
    => exitStatus = 0

C4_Witness ==
    /\ ExitedNormally
    /\ Len(reaped) = 3
    /\ reaped[1][1] = "sort"
    /\ \A k \in DOMAIN reaped : ExitedWith(reaped[k][2], 0)
    /\ exitStatus = 0

\* C5: when a reaped stage was ended by signal S and every stage reaped before
\* it exited with 0, the parent's exit status is S.
C5_SignalRecorded ==
    ExitedNormally =>
        \A k \in DOMAIN reaped :
            ( /\ Signaled(reaped[k][2])
              /\ \A j \in 1 .. (k - 1) : ExitedWith(reaped[j][2], 0) )
            => exitStatus = WTERMSIG(reaped[k][2])

\* C6: when a reaped stage was ended by a signal and no stage exited with a
\* non-zero code, the parent's exit status is 2.
C6_SignalGivesTwo ==
    ( /\ ExitedNormally
      /\ \E k \in DOMAIN reaped : Signaled(reaped[k][2])
      /\ \A k \in DOMAIN reaped : ~ExitedNonZero(reaped[k][2]) )
    => exitStatus = 2

ParentPipeFds == {f \in FdRange : IsPipeEnd(fds["parent"][f])}

\* C7: in the reap loop and up to its exit the parent has no pipe descriptor
\* open.
C7_ParentHoldsNoPipe ==
    (failedCall = "" /\ ppc \in {"wait271", "exit294"}) => ParentPipeFds = {}

\* C8: when the pager stage has become the program PAGER names, that exec was
\* its only one: neither less nor more was tried.
C8_PagerOnly ==
    ( /\ cpc["pager"] = "running"
      /\ pager # << >>
      /\ image["pager"] = pager[1] )
    => attempts["pager"] = << pager[1] >>

C8_Witness ==
    /\ cpc["pager"] = "running"
    /\ pager = << "most" >>
    /\ image["pager"] = "most"

\* C9: the pager stage tries PAGER (when getenv returned a string), then less,
\* then more, each only after the one before returned; the program it becomes
\* is the last one tried; with PAGER unset or empty it becomes more when the
\* exec of less returned and that of more did not.
C9_FallbackOrder ==
    LET a == attempts["pager"]
        order == (IF pager # << >> THEN << pager[1] >> ELSE << >>) \o << "less", "more" >>
    IN /\ IsPrefix(a, order)
       /\ cpc["pager"] = "running" => (a # << >> /\ image["pager"] = a[Len(a)])
       /\ (cpc["pager"] = "setup" /\ pager = << >>) => image["pager"] = ""
       /\ ( /\ cpc["pager"] = "running"
            /\ pager \in { << >>, << "" >> }
            /\ Len(a) = Len(order) )
          => image["pager"] = "more"

C9_Witness ==
    /\ cpc["pager"] = "running"
    /\ pager = << >>
    /\ attempts["pager"] = << "less", "more" >>
    /\ image["pager"] = "more"

\* C10: a stage whose exec returned exits with status 1; the parent still
\* forks every stage and reaps every stage, and its exit status is not 0,
\* whatever the reap order and the other stages' ends.
C10_ExecFailure ==
    /\ \A c \in execFailed :
          /\ cpc[c] = "zombie" => wstatus[c] = W_EXITCODE(1)
          /\ \A k \in DOMAIN reaped : reaped[k][1] = c => reaped[k][2] = W_EXITCODE(1)
    /\ (ppc = "done" /\ execFailed # {}) =>
          /\ forked = ExpectedStages(argv)
          /\ ReapedStages = ForkedStages
          /\ Len(reaped) = Len(forked)
          /\ exitStatus # 0

C10_Witness ==
    /\ ppc = "done"
    /\ execFailed = {"grep"}
    /\ Len(reaped) = 4
    /\ reaped[4][1] = "grep"
    /\ \E k \in DOMAIN reaped : Signaled(reaped[k][2])
    /\ exitStatus = 1

PipesCreated == \A p \in DOMAIN pipes : pipes[p] # << -1, -1 >>

\* C11: a failed pipe, fork, close or wait ends the parent there with status 1:
\* from then on nothing is forked, reaped, created or closed; a stage exists
\* only when all three pipes do, so a failed pipe() leaves no stage; a stage
\* whose dup2 or close failed had tried no exec, ends with exit status 1 and
\* never runs its program.
C11_SetupFailure ==
    /\ [](failedCall # "" => (ppc = "done" /\ exitStatus = 1))
    /\ [](forked # << >> => PipesCreated)
    /\ [](failedCall = "pipe" => (forked = << >> /\ \A c \in Stages : cpc[c] = "none"))
    /\ [][failedCall # "" =>
            (forked' = forked /\ reaped' = reaped /\ pipes' = pipes
               /\ fds'["parent"] = fds["parent"] /\ exitStatus' = exitStatus)]_vars
    /\ [][\A c \in Stages :
            /\ (c \in sysFailed' /\ c \notin sysFailed) =>
                  (attempts[c] = << >> /\ cpc[c] = "setup"
                     /\ cpc'[c] = "zombie" /\ wstatus'[c] = W_EXITCODE(1))
            /\ c \in sysFailed => cpc'[c] \in {"zombie", "reaped"}]_vars

C11_Witness ==
    /\ failedCall = "close"
    /\ exitStatus = 1
    /\ Len(forked) = 2
    /\ sysFailed # {}

\* C12: a stage that has exec'd holds no pipe descriptor but its standard
\* input and standard output.
C12_OnlyStdioPipes ==
    \A c \in Stages : cpc[c] = "running" =>
        \A f \in FdRange :
            IsPipeEnd(fds[c][f]) => f \in {STDIN_FILENO, STDOUT_FILENO}

\* C13: with bounded pipes and a finite source, no stage stays blocked on a
\* pipe because another live process holds an end of it: as long as the parent
\* has not exited, some process can take a step.
C13_NoStall == ppc # "done" => ENABLED NextFlow

\* C14 as stated: the parent exits only after every child it spawned has
\* been reaped, whatever fails.
C14_AlwaysWaits == ppc = "done" => Unwaited = {}

\* C14, amended: when none of the parent's system calls has failed, the
\* parent exits only after every child it spawned has been reaped.
C14_WaitsUnlessFailed ==
    (ppc \in {"exit294", "done"} /\ failedCall = "") =>
        (Unwaited = {} /\ ReapedStages = ForkedStages /\ Len(reaped) = Len(forked))

C14_Witness ==
    /\ ExitedNormally
    /\ ForkedStages = Stages
    /\ ReapedStages = Stages
    /\ execFailed = {"grep"}

\* C15: once a failed child (non-zero exit or signal) has been reaped, no
\* later reaped child changes the recorded aggregate status.
C15_FirstFailureKept ==
    [][(\E k \in DOMAIN reaped : reaped[k][2] # 0) => exit_value' = exit_value]_vars

\* the exec targets the code of stage c names
Targets(c) == {StageOps(c)[k].file : k \in {j \in DOMAIN StageOps(c) : StageOps(c)[j].op = "exec"}}

\* C16: a stage process becomes one of its target programs or exits with
\* status 1; only the parent forks, so every stage exists at most once and at
\* most 4 processes (3 without arguments) are created.
C16_StageNeverForks ==
    /\ [](/\ Len(forked) <= Len(ExpectedStages(argv))
          /\ Cardinality(ForkedStages) = Len(forked)
          /\ \A c \in Stages :
                /\ cpc[c] # "none" <=> c \in ForkedStages
                /\ cpc[c] = "setup" => ip[c] \in 1 .. (Len(StageOps(c)) + 1)
                /\ cpc[c] = "running" => image[c] \in Targets(c)
                /\ c \in execFailed \cup sysFailed => cpc[c] \in {"zombie", "reaped"})
    /\ [][\A c \in Stages : cpc[c] = "setup" =>
             \/ cpc'[c] \in {"setup", "running"}
             \/ cpc'[c] = "zombie" /\ wstatus'[c] = W_EXITCODE(1)]_vars

C16_Witness ==
    /\ "sort" \in execFailed
    /\ cpc["pager"] = "running"
    /\ Len(forked) = 4

\* C17: without a failed system call the reap loop starts with cur equal to
\* the number of children forked (3 or 4), calls wait only while an unreaped
\* child remains, and ends with every child reaped.
C17_ReapCount ==
    failedCall = "" =>
        /\ ppc \in {"wait271", "exit294", "done"} =>
              (cur = Len(forked) /\ cur = Len(ExpectedStages(argv)))
        /\ ppc = "wait271" => (Unwaited # {} /\ i = Len(reaped) /\ i < cur)
        /\ ppc \in {"exit294", "done"} => (Len(reaped) = cur /\ Unwaited = {})

C17_Witness == ppc = "exit294" /\ cur = 3 /\ i = 3 /\ Len(reaped) = 3

\* the aggregate the reap loop computes from the statuses in reap order
NonZeroExits(r) == {k \in DOMAIN r : ExitedNonZero(r[k][2])}
Aggregate(r) ==
    IF NonZeroExits(r) = {} THEN 0
    ELSE WEXITSTATUS(r[CHOOSE k \in NonZeroExits(r) : \A j \in NonZeroExits(r) : k <= j][2])

WriterStage(p) == ExpectedStages(argv)[p + 1]
ReaderStage(p) == ExpectedStages(argv)[p + 2]

\* C19: no process uses a descriptor it has closed: at each close of the
\* parent the descriptor is still that pipe end and both stages of the pipe
\* have been forked; every descriptor a child hands to dup2 or close is open.
C19_NoUseAfterClose ==
    /\ ppc \in CloseSites =>
          LET p == ParentCloseIdx(cur)
              fd == PipeFd(p, CloseEnd(ppc))
          IN /\ fd \in FdRange
             /\ fds["parent"][fd] = PipeEnd(p, CloseEnd(ppc))
             /\ WriterStage(p) \in ForkedStages
             /\ ReaderStage(p) \in ForkedStages
    /\ \A c \in Stages : (AtOp(c, "dup2") \/ AtOp(c, "close")) =>
          /\ OpFd(c) \in FdRange
          /\ fds[c][OpFd(c)] = PipeEnd(ccur[c] + StageOps(c)[ip[c]].off, StageOps(c)[ip[c]].end)

C19_Witness ==
    /\ ppc = "close262"
    /\ AtOp("pager", "close")
    /\ AtOp("sort", "dup2")

====
